---- MODULE Spec2Model ----
(***************************************************************************)
(* Model of redis_cache: the cache-aside decorator of cache_manager.py     *)
(* (specification Spec; KwSpec with keyword arguments; ConcSpec with       *)
(* concurrent callers; KeySpec for CacheManager.key on its own) and the    *)
(* namespace update manager of django_cache_manager.py (UpdSpec).          *)
(*                                                                         *)
(* Strings are sequences of one-character strings, so that key building    *)
(* and glob matching are computed and not assumed.                         *)
(***************************************************************************)
EXTENDS Integers, Sequences, FiniteSets, TLC

VARIABLES
    \* ---- cache_manager.py ----
    _ttl,          \* CacheManager._ttl
    _connection,   \* CacheManager._connection (bound connection or None)
    current,       \* the ambient connection of get_current_connection()
    deco_ttl,      \* the ttl keyword given to DefaultCacheManager.cache
    redis,         \* the Redis store: key -> [val, ttl]
    w,             \* the running wrapper invocation
    last,          \* the last completed wrapper invocation
    changed,       \* store values changed since the wrapper last used the store
    \* ---- django_cache_manager.py ----
    managers,      \* CacheUpdateManager.__dict__: namespace -> registry
    views,         \* CacheManager.views
    cache,         \* the cache handed to CacheUpdateManager: key -> value
    kind,          \* "StrictRedis" or "other" (isinstance test of flush_app)
    u,             \* the running update_all / update_namespace / update
    out,           \* outcome of the last manager operation
    \* ---- CacheManager.key on its own ----
    kc,            \* the last two key computations: inputs and keys
    \* ---- concurrent callers of one decorated function ----
    ws             \* caller -> its wrapper invocation

cmVars  == <<_ttl, _connection, current, deco_ttl, redis, w, last, changed>>
djVars  == <<managers, views, cache, kind, u, out>>
kcVars  == <<kc>>
wsVars  == <<ws>>
vars    == <<_ttl, _connection, current, deco_ttl, redis, w, last, changed,
             managers, views, cache, kind, u, out, kc, ws>>
otherThanCm == <<djVars, kcVars, wsVars>>
otherThanDj == <<cmVars, kcVars, wsVars>>

----------------------------------------------------------------------------
\* Bounds
MaxArg     == 1
MaxTTL     == 2

None   == "None"       \* Python None, where the other values are strings
NoneT  == -1           \* Python None, where the other values are numbers
NoData == <<"None">>   \* Python None, where the other values are byte strings
NoClass == <<>>        \* a function that is not a bound method
Raised == "Raised"     \* the call raised instead of returning

----------------------------------------------------------------------------
\* Strings

RECURSIVE join(_, _)
\* sep.join(parts)
join(sep, parts) ==
    IF Len(parts) = 0 THEN <<>>
    ELSE IF Len(parts) = 1 THEN parts[1]
    ELSE parts[1] \o sep \o join(sep, Tail(parts))

Digit == <<"0", "1", "2", "3", "4", "5", "6", "7", "8", "9">>

\* Python values passed as arguments: the integer n, the string s, and an
\* object whose string form is s
PyInt(n) == [int |-> n]
PyStr(s) == [str |-> s]
PyObj(s) == [obj |-> s]

RECURSIVE decimal(_)
\* the decimal digits of a natural
decimal(n) ==
    IF n < 10 THEN <<Digit[n + 1]>>
    ELSE decimal(n \div 10) \o <<Digit[(n % 10) + 1]>>

\* unicode(arg): decimal form of an integer, the text itself for a string,
\* the string form of an object
unicode(arg) ==
    IF "int" \in DOMAIN arg THEN decimal(arg.int)
    ELSE IF "str" \in DOMAIN arg THEN arg.str
    ELSE arg.obj

----------------------------------------------------------------------------
\* cache_manager.py

\* The decorated functions: name, enclosing class of a bound method (or None),
\* declared parameter names, and the decorator used.
F_plain  == [name |-> <<"f">>, im_class |-> NoClass, f_args |-> <<"x">>,
             deco |-> "CacheManager"]
F_method == [name |-> <<"m">>, im_class |-> NoClass, f_args |-> <<"self", "x">>,
             deco |-> "DefaultCacheManager"]
Funcs    == {F_plain, F_method}

\* the argument tuples the functions are called with; the receiver of m is
\* an object, of which only its string form would matter
Receivers == {PyObj(<<"o">>)}
ArgsOf(f) ==
    IF f.f_args[1] \in {"cls", "self"}
    THEN {<<r, PyInt(1)>> : r \in Receivers}
    ELSE {<<PyInt(x)>> : x \in 1..MaxArg}

\* the keyword arguments the functions are called with: none, or v=1
Kwargs == {<<>>, <<"v">>}

_key_base == <<"c">>

\* CacheManager.key
key(f, args) ==
    LET nameparts == IF f.im_class # NoClass THEN <<f.im_class, f.name>>
                     ELSE <<f.name>>
        idx       == IF Len(f.f_args) > 0 /\ f.f_args[1] \in {"cls", "self"}
                     THEN 1 ELSE 0
        argparts  == <<_key_base, join(<<".">>, nameparts)>> \o
                     (IF Len(args) > 0 /\ Len(f.f_args) > 0
                      THEN [i \in 1..(Len(args) - idx) |-> unicode(args[i + idx])]
                      ELSE <<>>)
    IN join(<<":">>, argparts)

wrapper_key_kw(f, args, kwargs) == key(f, args) \o kwargs

\* wrapper, line 104: key = self.key(f, args)
wrapper_key(f, args, kwargs) == key(f, args)

connection_fallback == IF _connection # None THEN _connection ELSE "r"

\* CacheManager.connection
connection == IF _connection # None THEN _connection ELSE current

\* Python truth value of a ttl and of loaded data
TruthyT(t) == t # NoneT /\ t # 0
Truthy(data) == data # NoData /\ data # <<>>

\* CacheManager.before_save: cPickle.dumps
before_save(data) == <<"P", data>>

after_load_lenient(data) ==
    IF Len(data) = 2 /\ data[1] = "P" THEN data[2] ELSE None

\* CacheManager.after_load: cPickle.loads, which raises on bytes that are
\* not a pickle
after_load(data) ==
    IF Len(data) = 2 /\ data[1] = "P" THEN data[2] ELSE Raised

\* Redis GET / SET / EXPIRE
NoTTL == 0
Get(k)        == IF k \in DOMAIN redis THEN redis[k].val ELSE NoData
Set(s, k, v)  == [x \in DOMAIN s \cup {k} |->
                    IF x = k THEN [val |-> v, ttl |-> NoTTL] ELSE s[x]]

Expire_xx(s, k, t) ==
    [x \in DOMAIN s |->
       IF x = k /\ s[x].ttl # NoTTL THEN [val |-> s[x].val, ttl |-> t]
       ELSE s[x]]

Expire(s, k, t) == [x \in DOMAIN s |->
                    IF x = k THEN [val |-> s[x].val, ttl |-> t] ELSE s[x]]

load_never(k) == NoData

\* CacheManager.load
load(k) == Get(k)

is_not_None_always(data) == TRUE

\* wrapper, line 115: data is not None
is_not_None(data) == data # None

save_nothing(k, data) == redis

\* CacheManager.save
save(k, data) == Set(redis, k, data)

\* the ttl the wrapper applies: self._ttl for CacheManager.cache,
\* kwargs.get('ttl', self._ttl) for DefaultCacheManager.cache
NoKw == -2
ttlOf_default(f) == _ttl

ttlOf(f) ==
    IF f.deco = "CacheManager" THEN _ttl
    ELSE IF deco_ttl # NoKw THEN deco_ttl ELSE _ttl

Results == {None, "1", "2"}

Idle   == [pc |-> "idle"]
NoFunc == [name |-> <<>>, im_class |-> NoClass, f_args |-> <<>>, deco |-> None]
NoCall == [f |-> NoFunc, args |-> <<>>, kwargs |-> <<>>, res |-> Raised,
           fres |-> "NotCalled", inv |-> 0, io |-> <<>>,
           rep |-> "NoPrev", pinv |-> 0, pkw |-> <<>>]

Vals(s) == [k \in DOMAIN s |-> s[k].val]

\* the record kept of a finished invocation: what was called, what it
\* returned (or Raised), what f returned to it (or Raised, or NotCalled),
\* how often f ran, the store operations it issued, and (rep, pinv, pkw) as
\* explained at Call
Done(res, fres, inv, io) ==
    [f |-> w.f, args |-> w.args, kwargs |-> w.kwargs, res |-> res,
     fres |-> fres, inv |-> inv, io |-> io,
     rep |-> w.rep, pinv |-> w.pinv, pkw |-> w.pkw]

\* wrapper, lines 104-110: key and load.  io lists the store operations the
\* invocation has issued; (rep, pinv, pkw) are the result, the f-invocations
\* and the keyword arguments of the previous invocation when that one had the
\* same function and positional arguments, returned, and the store values
\* have not changed since its last store operation
Call(f, args, kwargs) ==
    /\ w.pc = "idle"
    /\ LET k    == wrapper_key(f, args, kwargs)
           same == last.f = f /\ last.args = args /\ ~changed
                   /\ last.res # Raised
       IN w' = [pc   |-> "loaded", f |-> f, args |-> args, kwargs |-> kwargs,
                res  |-> None,
                data |-> IF connection # None THEN load(k) ELSE NoData,
                io   |-> IF connection # None THEN <<"get">> ELSE <<>>,
                rep  |-> IF same THEN last.res ELSE "NoPrev",
                pinv |-> IF same THEN last.inv ELSE 0,
                pkw  |-> IF same THEN last.kwargs ELSE <<>>]
    /\ changed' = FALSE
    /\ UNCHANGED <<redis, last>>
    /\ UNCHANGED <<_ttl, _connection, current, deco_ttl>>
    /\ UNCHANGED otherThanCm

Hit_refresh ==
    /\ w.pc = "loaded"
    /\ Truthy(w.data)
    /\ w' = Idle
    /\ last' = Done(after_load(w.data), "NotCalled", 0, Append(w.io, "expire"))
    /\ redis' = Expire(redis, wrapper_key(w.f, w.args, w.kwargs), ttlOf(w.f))
    /\ changed' = FALSE
    /\ UNCHANGED <<_ttl, _connection, current, deco_ttl>>
    /\ UNCHANGED otherThanCm

\* wrapper, lines 110-111 and 125: the hit path
Hit ==
    /\ w.pc = "loaded"
    /\ Truthy(w.data)
    /\ w' = Idle
    /\ last' = Done(after_load(w.data), "NotCalled", 0, w.io)
    /\ UNCHANGED <<redis, changed>>
    /\ UNCHANGED <<_ttl, _connection, current, deco_ttl>>
    /\ UNCHANGED otherThanCm

\* wrapper, lines 113-119: the miss path up to before_save; r is what
\* f(*args, **kwargs) does
Compute(r) ==
    /\ w.pc = "loaded"
    /\ ~Truthy(w.data)
    /\ IF r # Raised /\ is_not_None(r) /\ connection # None
       THEN /\ w' = [w EXCEPT !.pc = "save", !.res = r]
            /\ UNCHANGED last
       ELSE /\ w' = Idle
            /\ last' = Done(r, r, 1, w.io)
    /\ UNCHANGED <<redis, changed>>
    /\ UNCHANGED <<_ttl, _connection, current, deco_ttl>>
    /\ UNCHANGED otherThanCm

\* wrapper, lines 120-122: save
Save ==
    /\ w.pc = "save"
    /\ redis' = save(wrapper_key(w.f, w.args, w.kwargs), before_save(w.res))
    /\ LET io == Append(w.io, "set")
       IN IF TruthyT(ttlOf(w.f))
          THEN /\ w' = [w EXCEPT !.pc = "expire", !.io = io]
               /\ last' = last
          ELSE /\ w' = Idle
               /\ last' = Done(w.res, w.res, 1, io)
    /\ changed' = FALSE
    /\ UNCHANGED <<_ttl, _connection, current, deco_ttl>>
    /\ UNCHANGED otherThanCm

\* wrapper, lines 122-125: expire and return
ExpireStep ==
    /\ w.pc = "expire"
    /\ redis' = Expire(redis, wrapper_key(w.f, w.args, w.kwargs), ttlOf(w.f))
    /\ w' = Idle
    /\ last' = Done(w.res, w.res, 1, Append(w.io, "expire"))
    /\ changed' = FALSE
    /\ UNCHANGED <<_ttl, _connection, current, deco_ttl>>
    /\ UNCHANGED otherThanCm

\* one second passes in the store: keys whose time-to-live runs out vanish
Tick ==
    /\ \E k \in DOMAIN redis : redis[k].ttl # NoTTL
    /\ redis' = [k \in {x \in DOMAIN redis : redis[x].ttl # 1} |->
                   [val |-> redis[k].val,
                    ttl |-> IF redis[k].ttl = NoTTL THEN NoTTL
                            ELSE redis[k].ttl - 1]]
    /\ changed' = (changed \/ Vals(redis') # Vals(redis))
    /\ UNCHANGED <<_ttl, _connection, current, deco_ttl, w, last>>
    /\ UNCHANGED otherThanCm

TTLs == {NoneT, 0} \cup 1..MaxTTL

\* what the store holds before the first call: nothing, an empty value or
\* bytes that are not a pickle under one of the keys
Stored == {<<>>, <<"X">>}
InitStores ==
    {<<>>} \cup
    {[k \in {key(F_plain, <<PyInt(1)>>)} |-> [val |-> v, ttl |-> NoTTL]] : v \in Stored}

----------------------------------------------------------------------------
\* django_cache_manager.py

MaxRecords == 2           \* bound on the calls registered in all namespaces

N1      == <<"s", ".", "b", ".", "n">>
N2      == <<"q", ".", "b">>
Unknown == <<"z">>
Keys    == {N1, N2}                          \* the keys given to __init__
CACHE_KEYS == [k \in Keys |-> <<"b">>]       \* settings.CACHE_KEYS
NsOrder == <<N1, N2>>                        \* iteration order of __dict__
AppNames == {<<"b">>, <<"c">>}               \* arguments of flush_app

\* the registered function and the positional arguments it is registered with
FuncNames == {<<"g">>}
DjArgs    == {<<PyInt(1)>>, <<PyInt(2)>>}

\* what func(*args, **kwargs) returns
Result(rec) == [func |-> rec.func, args |-> rec.args]

\* cache_utils.decorators.cache_create_key
cache_create_key(namespace, ignore_args, func_name, args) ==
    join(<<":">>, <<namespace, func_name>> \o
                  (IF ignore_args THEN <<>>
                   ELSE [i \in 1..Len(args) |-> unicode(args[i])]))

RecKey(namespace, rec) ==
    cache_create_key(namespace, rec.ignore_args, rec.func, rec.args)

RECURSIVE GlobMatch(_, _)
\* glob matching of the store: * matches any run of characters
GlobMatch(p, str) ==
    IF Len(p) = 0 THEN Len(str) = 0
    ELSE IF p[1] = "*"
         THEN GlobMatch(Tail(p), str)
              \/ (Len(str) > 0 /\ GlobMatch(p, Tail(str)))
         ELSE Len(str) > 0 /\ str[1] = p[1] /\ GlobMatch(Tail(p), Tail(str))

AppPattern_loose(app_name) == <<"*", ".">> \o app_name \o <<"*">>

\* '*.{0}.*'.format(app_name)
AppPattern(app_name) == <<"*", ".">> \o app_name \o <<".", "*">>

Without(c, ks) == [k \in DOMAIN c \ ks |-> c[k]]

\* CacheUpdateManager.flush_app: the cache it leaves and whether it raised.
\* DEL without any key is an error reply, which StrictRedis.delete raises.
flush_app(app_name, c) ==
    LET ks == {k \in DOMAIN c : GlobMatch(AppPattern(app_name), k)}
    IN IF kind = "StrictRedis" /\ ks = {}
       THEN [cache |-> c, raised |-> TRUE]
       ELSE [cache |-> Without(c, ks), raised |-> FALSE]

\* A CacheManager is referred to by the key it is stored under in __dict__
\* (its namespace attribute); NoManager is the default None of get.
NoManager == <<>>

get_fallback(name) == IF name \in DOMAIN managers THEN name ELSE N1

\* CacheUpdateManager.get
get(name) == IF name \in DOMAIN managers THEN name ELSE NoManager

\* isinstance(manager, CacheManager)
isinstance(manager) == manager # NoManager

__setattr__plain(name, value) ==
    [managers |-> [k \in DOMAIN managers \cup {name} |->
                     IF k = name THEN value ELSE managers[k]],
     raised   |-> FALSE]

\* CacheUpdateManager.__setattr__: the attributes it leaves and whether it
\* raised
__setattr__(name, value) == [managers |-> managers, raised |-> TRUE]

\* CacheUpdateManager.__delattr__: the attributes it leaves and whether it
\* raised
__delattr__(name) == [managers |-> managers, raised |-> TRUE]

append_no_mirror(registry, tup) ==
    [registry |-> Append(registry, tup), views |-> views]

\* CacheManager.append: the (registry, views) after appending tup
append(registry, tup) ==
    [registry |-> Append(registry, tup),
     views    |-> IF tup.view THEN Append(views, tup) ELSE views]

NumRecords == Len(managers[N1]) + Len(managers[N2])

\* the outcome of an operation: returned a count, a flag or a list, or raised
\* (arg is the namespace given to add_to_manager and update_namespace)
Out(op, arg, status, count, results) ==
    [op |-> op, arg |-> arg, status |-> status, count |-> count,
     results |-> results]
Running == Out("update", <<>>, "running", 0, <<>>)

\* the running update: the CacheManager (ns), the loop positions i and j,
\* num_updated, the records called and those skipped after raising, whether
\* flush_app has returned, the keys the view functions cached, the views
\* whose function was called, and the namespaces and results of update_all
UIdle == [pc |-> "idle", ns |-> <<>>, i |-> 0, j |-> 0, num_updated |-> 0,
          called |-> {}, skipped |-> {}, flushed |-> FALSE, repop |-> {},
          vcalled |-> {}, all |-> FALSE, todo |-> <<>>, results |-> <<>>]

\* CacheUpdateManager.add_to_manager
add_to_manager(namespace, ignore_args, view, func, args) ==
    /\ u.pc = "idle"
    /\ LET manager == get(namespace)
       IN IF isinstance(manager)
          THEN /\ NumRecords < MaxRecords
               /\ LET tup == [func |-> func, ignore_args |-> ignore_args,
                              view |-> view, namespace |-> namespace,
                              args |-> args, kwargs |-> <<>>]
                      r   == append(managers[manager], tup)
                  IN /\ managers' = [managers EXCEPT ![manager] = r.registry]
                     /\ views' = r.views
               /\ out' = Out("add_to_manager", namespace, "True", 0, <<>>)
          ELSE /\ UNCHANGED <<managers, views>>
               /\ out' = Out("add_to_manager", namespace, "False", 0, <<>>)
    /\ UNCHANGED <<cache, kind, u>>
    /\ UNCHANGED otherThanDj

LoopPc_skip_last(ns, i) == IF i < Len(managers[ns]) THEN "loop" ELSE "flush"

\* where update stands once record i of the loop is done: the next record,
\* or the flush after the loop
LoopPc(ns, i) == IF i <= Len(managers[ns]) THEN "loop" ELSE "flush"

StartUpdate(ns, all, todo, results) ==
    [pc |-> LoopPc(ns, 1), ns |-> ns, i |-> 1, j |-> 0, num_updated |-> 0,
     called |-> {}, skipped |-> {}, flushed |-> FALSE, repop |-> {},
     vcalled |-> {}, all |-> all, todo |-> todo, results |-> results]

OnRaise_break(upd) ==
    [upd EXCEPT !.pc = "flush", !.called = upd.called \cup {upd.i},
                !.skipped = upd.skipped \cup {upd.i}]

\* update, lines 117-119: the function of record i raised; log and continue
OnRaise(upd) ==
    [upd EXCEPT !.i = upd.i + 1, !.pc = LoopPc(upd.ns, upd.i + 1),
                !.called = upd.called \cup {upd.i},
                !.skipped = upd.skipped \cup {upd.i}]

\* CacheUpdateManager.update_namespace, up to the first record of update
update_namespace(namespace) ==
    /\ u.pc = "idle"
    /\ LET manager == get(namespace)
       IN IF isinstance(manager)
          THEN /\ u' = StartUpdate(manager, FALSE, <<>>, <<>>)
               /\ out' = Out("update", namespace, "running", 0, <<>>)
          ELSE /\ u' = u
               /\ out' = Out("update", namespace, "raised", 0, <<>>)
    /\ UNCHANGED <<managers, views, cache, kind>>
    /\ UNCHANGED otherThanDj

\* CacheUpdateManager.update_all, up to the first record of the first update
update_all ==
    /\ u.pc = "idle"
    /\ u' = StartUpdate(get(NsOrder[1]), TRUE, Tail(NsOrder), <<>>)
    /\ out' = Out("update_all", <<>>, "running", 0, <<>>)
    /\ UNCHANGED <<managers, views, cache, kind>>
    /\ UNCHANGED otherThanDj

\* CacheManager.update, lines 110-124: one record of the loop; ok is whether
\* func(*args, **kwargs) returns
UpdateLoop(ok) ==
    /\ u.pc = "loop"
    /\ LET rec == managers[u.ns][u.i]
           k   == RecKey(u.ns, rec)
       IN IF ok
          THEN /\ cache' = [x \in DOMAIN cache \cup {k} |->
                              IF x = k THEN Result(rec) ELSE cache[x]]
               /\ u' = [u EXCEPT !.i = u.i + 1, !.pc = LoopPc(u.ns, u.i + 1),
                                 !.called = u.called \cup {u.i},
                                 !.num_updated = u.num_updated + 1]
          ELSE /\ cache' = cache
               /\ u' = OnRaise(u)
    /\ out' = Running
    /\ UNCHANGED <<managers, views, kind>>
    /\ UNCHANGED otherThanDj

\* update raises: the exception leaves update_namespace and, inside
\* update_all, update_all as well (neither catches it); from is where it was
\* raised
Raise(from) ==
    /\ u' = UIdle
    /\ out' = Out(IF u.all THEN "update_all" ELSE "update", from, "raised",
                  0, u.results)

\* update returns num_updated, to update_namespace and from there to the
\* caller or to the loop of update_all, which goes on with the next namespace
Return ==
    IF ~u.all
    THEN /\ u' = UIdle
         /\ out' = Out("update", u.ns, "returned", u.num_updated, <<>>)
    ELSE /\ out' = Out("update", u.ns, "returned", u.num_updated, <<>>)
         /\ IF Len(u.todo) > 0
            THEN u' = StartUpdate(get(u.todo[1]), TRUE, Tail(u.todo),
                                  Append(u.results, u.num_updated))
            ELSE u' = [UIdle EXCEPT !.pc = "all_done", !.all = TRUE,
                         !.results = Append(u.results, u.num_updated)]

\* CacheManager.update, line 125: flush_app
UpdateFlush ==
    /\ u.pc = "flush"
    /\ LET r == flush_app(CACHE_KEYS[u.ns], cache)
       IN /\ cache' = r.cache
          /\ IF r.raised THEN Raise(<<"flush_app">>)
             ELSE IF Len(views) > 0
                  THEN /\ u' = [u EXCEPT !.pc = "view_delete", !.j = 1,
                                         !.flushed = TRUE]
                       /\ out' = Running
                  ELSE Return
    /\ UNCHANGED <<managers, views, kind>>
    /\ UNCHANGED otherThanDj

delete_nothing(c, k) == c

\* cache.delete(key)
delete(c, k) == Without(c, {k})

\* view_key of update, line 131, for the j-th record of CacheManager.views
ViewKey(j) == RecKey(views[j].namespace, views[j])

\* CacheManager.update, lines 131-132: delete the key of view j
UpdateViewDelete ==
    /\ u.pc = "view_delete"
    /\ cache' = delete(cache, ViewKey(u.j))
    /\ u' = [u EXCEPT !.pc = "view_call", !.repop = u.repop \ {ViewKey(u.j)}]
    /\ out' = Running
    /\ UNCHANGED <<managers, views, kind>>
    /\ UNCHANGED otherThanDj

UpdateViewCall_isolated(effect) ==
    /\ u.pc = "view_call"
    /\ LET rec == views[u.j]
           k   == ViewKey(u.j)
           nxt == [u EXCEPT !.repop = IF effect = "cached"
                                      THEN u.repop \cup {k} ELSE u.repop,
                            !.vcalled = u.vcalled \cup {u.j}]
       IN /\ cache' = IF effect = "cached"
                      THEN [x \in DOMAIN cache \cup {k} |->
                              IF x = k THEN Result(rec) ELSE cache[x]]
                      ELSE cache
          /\ IF u.j < Len(views)
             THEN /\ u' = [nxt EXCEPT !.pc = "view_delete", !.j = u.j + 1]
                  /\ out' = IF effect = "raised"
                            THEN Out("update", <<"view">>, "running", 0, <<>>)
                            ELSE Running
             ELSE Return
    /\ UNCHANGED <<managers, views, kind>>
    /\ UNCHANGED otherThanDj

\* CacheManager.update, line 133: func(*args, **kwargs) of view j, which
\* raises, or returns having cached its result under its key, or returns
\* having cached nothing
UpdateViewCall(effect) ==
    /\ u.pc = "view_call"
    /\ LET rec == views[u.j]
           k   == ViewKey(u.j)
           nxt == [u EXCEPT !.repop = IF effect = "cached"
                                      THEN u.repop \cup {k} ELSE u.repop,
                            !.vcalled = u.vcalled \cup {u.j}]
       IN /\ cache' = IF effect = "cached"
                      THEN [x \in DOMAIN cache \cup {k} |->
                              IF x = k THEN Result(rec) ELSE cache[x]]
                      ELSE cache
          /\ IF effect = "raised" THEN Raise(<<"view">>)
             ELSE IF u.j < Len(views)
                  THEN /\ u' = [nxt EXCEPT !.pc = "view_delete", !.j = u.j + 1]
                       /\ out' = Running
                  ELSE Return
    /\ UNCHANGED <<managers, views, kind>>
    /\ UNCHANGED otherThanDj

\* CacheUpdateManager.update_all, line 47: return result
UpdateAllReturn ==
    /\ u.pc = "all_done"
    /\ u' = UIdle
    /\ out' = Out("update_all", <<>>, "returned", 0, u.results)
    /\ UNCHANGED <<managers, views, cache, kind>>
    /\ UNCHANGED otherThanDj

\* CacheUpdateManager.flush_app called on its own
FlushApp(app_name) ==
    /\ u.pc = "idle"
    /\ LET r == flush_app(app_name, cache)
       IN /\ cache' = r.cache
          /\ out' = Out("flush_app", <<>>,
                        IF r.raised THEN "raised" ELSE "returned", 0, <<>>)
    /\ UNCHANGED <<managers, views, kind, u>>
    /\ UNCHANGED otherThanDj

\* update_manager.<name> = value
SetAttr(name) ==
    /\ u.pc = "idle"
    /\ LET r == __setattr__(name, <<>>)
       IN /\ managers' = r.managers
          /\ out' = Out("setattr", <<>>,
                        IF r.raised THEN "raised" ELSE "returned", 0, <<>>)
    /\ UNCHANGED <<views, cache, kind, u>>
    /\ UNCHANGED otherThanDj

\* del update_manager.<name>
DelAttr(name) ==
    /\ u.pc = "idle"
    /\ LET r == __delattr__(name)
       IN /\ managers' = r.managers
          /\ out' = Out("delattr", <<>>,
                        IF r.raised THEN "raised" ELSE "returned", 0, <<>>)
    /\ UNCHANGED <<views, cache, kind, u>>
    /\ UNCHANGED otherThanDj

djInit ==
    /\ managers = [k \in Keys |-> <<>>]
    /\ views = <<>>
    /\ cache = <<>>
    /\ kind = "other"
    /\ u = UIdle
    /\ out = Out("init", <<>>, "returned", 0, <<>>)

\* no key computed yet
NoKey  == [f |-> NoFunc, args |-> <<>>, key |-> <<>>]
NoKeys == [prev |-> NoKey, cur |-> NoKey]

\* no concurrent callers
NoCallers == <<>>

cmInit ==
    /\ kc = NoKeys
    /\ ws = NoCallers
    /\ _ttl = NoneT
    /\ deco_ttl = NoKw
    /\ _connection = None
    /\ current = None
    /\ redis = <<>>
    /\ w = Idle
    /\ last = NoCall
    /\ changed = FALSE

UpdInit ==
    /\ managers = [k \in Keys |-> <<>>]
    /\ views = <<>>
    /\ cache = <<>>
    /\ kind \in {"StrictRedis", "other"}
    /\ u = UIdle
    /\ out = Out("init", <<>>, "returned", 0, <<>>)
    /\ cmInit

UpdNext ==
    \/ \E ns \in Keys \cup {Unknown}, ia \in BOOLEAN, vw \in BOOLEAN,
          fn \in FuncNames, args \in DjArgs :
            add_to_manager(ns, ia, vw, fn, args)
    \/ \E ns \in Keys \cup {Unknown} : update_namespace(ns)
    \/ update_all
    \/ \E ok \in BOOLEAN : UpdateLoop(ok)
    \/ UpdateFlush
    \/ UpdateViewDelete
    \/ \E e \in {"raised", "cached", "nothing"} : UpdateViewCall(e)
    \/ UpdateAllReturn
    \/ \E app \in AppNames : FlushApp(app)
    \/ \E name \in Keys \cup {Unknown} : SetAttr(name)
    \/ \E name \in Keys \cup {Unknown} : DelAttr(name)

UpdSpec == UpdInit /\ [][UpdNext]_vars

Init ==
    /\ _ttl \in TTLs
    /\ deco_ttl \in {NoKw} \cup TTLs
    /\ _connection \in {None, "r"}
    /\ current \in {None, "r"}
    /\ redis \in InitStores
    /\ w = Idle
    /\ last = NoCall
    /\ changed = FALSE
    /\ kc = NoKeys
    /\ ws = NoCallers
    /\ djInit

Next ==
    \/ \E f \in Funcs : \E args \in ArgsOf(f) : Call(f, args, <<>>)
    \/ Hit
    \/ \E r \in Results \cup {Raised} : Compute(r)
    \/ Save
    \/ ExpireStep
    \/ Tick

Spec == Init /\ [][Next]_vars

TypeOK == w.pc \in {"idle", "loaded", "save", "expire"}

\* The decorator called with and without keyword arguments
KwInit ==
    /\ _ttl \in TTLs
    /\ deco_ttl = NoKw
    /\ _connection \in {None, "r"}
    /\ current = None
    /\ redis \in InitStores
    /\ w = Idle
    /\ last = NoCall
    /\ changed = FALSE
    /\ kc = NoKeys
    /\ ws = NoCallers
    /\ djInit

KwNext ==
    \/ \E f \in Funcs : \E args \in ArgsOf(f) : \E kwargs \in Kwargs :
          Call(f, args, kwargs)
    \/ Hit
    \/ \E r \in Results \cup {Raised} : Compute(r)
    \/ Save
    \/ ExpireStep
    \/ Tick

KwSpec == KwInit /\ [][KwNext]_vars

----------------------------------------------------------------------------
\* CacheManager.key on its own

MaxKeyArgs == 2        \* bound on the positional arguments after the receiver

\* the argument values: 1, 2, '1' and '1:1'
ArgVals == <<PyInt(1), PyInt(2), PyStr(<<"1">>), PyStr(<<"1", ":", "1">>)>>

\* the receivers: two objects
KeyReceivers == <<PyObj(<<"o">>), PyObj(<<"p">>)>>

\* def f(x=0, y=0, z=0), def s(*args), def m(self, x=0, y=0, z=0) as a plain
\* function and as a bound method of class K
K_plain  == [name |-> <<"f">>, im_class |-> NoClass,
             f_args |-> <<"x", "y", "z">>, deco |-> "CacheManager"]
K_star   == [name |-> <<"s">>, im_class |-> NoClass,
             f_args |-> <<>>, deco |-> "CacheManager"]
K_method == [name |-> <<"m">>, im_class |-> NoClass,
             f_args |-> <<"self", "x", "y", "z">>, deco |-> "CacheManager"]
K_bound  == [name |-> <<"m">>, im_class |-> <<"K">>,
             f_args |-> <<"self", "x", "y", "z">>, deco |-> "CacheManager"]
KeyFuncs == {K_plain, K_star, K_method, K_bound}

\* f's first declared parameter is a receiver
HasReceiver(f) == Len(f.f_args) > 0 /\ f.f_args[1] \in {"cls", "self"}

\* self.key(f, args), remembered together with the computation before it;
\* two computations are observed
KeyCall(f, args) ==
    /\ kc.prev = NoKey
    /\ kc' = [prev |-> kc.cur,
              cur  |-> [f |-> f, args |-> args, key |-> key(f, args)]]
    /\ UNCHANGED <<cmVars, djVars, wsVars>>

KeyInit ==
    /\ cmInit
    /\ djInit

KeyNext ==
    \E f \in KeyFuncs : \E n \in 0..MaxKeyArgs :
       \E ix \in [1..n -> 1..Len(ArgVals)] :
          \E r \in 1..(IF HasReceiver(f) THEN Len(KeyReceivers) ELSE 1) :
             KeyCall(f, (IF HasReceiver(f) THEN <<KeyReceivers[r]>> ELSE <<>>)
                        \o [i \in 1..n |-> ArgVals[ix[i]]])

KeySpec == KeyInit /\ [][KeyNext]_vars

----------------------------------------------------------------------------
\* Concurrent callers of one decorated function with the same arguments.
\* Each caller runs the wrapper once; a step is one store operation or the
\* call of f, and the steps of the callers interleave freely.  The race is
\* over before a second of any time-to-live has passed.

MaxCallers == 2
Callers == 1..MaxCallers

\* a caller that has not entered the wrapper yet
NotStarted(f, args) ==
    [pc |-> "start", f |-> f, args |-> args, kwargs |-> <<>>, data |-> NoData,
     res |-> None, fres |-> "NotCalled", inv |-> 0, io |-> <<>>]

\* wrapper, lines 104-108: key and load
CCall(c) ==
    /\ ws[c].pc = "start"
    /\ LET k == wrapper_key(ws[c].f, ws[c].args, ws[c].kwargs)
       IN ws' = [ws EXCEPT ![c].pc = "loaded",
                           ![c].data = IF connection # None THEN load(k)
                                       ELSE NoData,
                           ![c].io = IF connection # None THEN <<"get">>
                                     ELSE <<>>]
    /\ UNCHANGED <<cmVars, djVars, kcVars>>

\* wrapper, lines 110-111 and 125: the hit path
CHit(c) ==
    /\ ws[c].pc = "loaded"
    /\ Truthy(ws[c].data)
    /\ ws' = [ws EXCEPT ![c].pc = "done", ![c].res = after_load(ws[c].data)]
    /\ UNCHANGED <<cmVars, djVars, kcVars>>

\* wrapper, lines 113-119: the miss path up to before_save
CCompute(c, r) ==
    /\ ws[c].pc = "loaded"
    /\ ~Truthy(ws[c].data)
    /\ ws' = [ws EXCEPT ![c].pc = IF r # Raised /\ is_not_None(r)
                                     /\ connection # None
                                  THEN "save" ELSE "done",
                        ![c].res = r, ![c].fres = r, ![c].inv = 1]
    /\ UNCHANGED <<cmVars, djVars, kcVars>>

\* wrapper, lines 120-122: save
CSave(c) ==
    /\ ws[c].pc = "save"
    /\ redis' = save(wrapper_key(ws[c].f, ws[c].args, ws[c].kwargs),
                     before_save(ws[c].res))
    /\ ws' = [ws EXCEPT ![c].pc = IF TruthyT(ttlOf(ws[c].f)) THEN "expire"
                                  ELSE "done",
                        ![c].io = Append(ws[c].io, "set")]
    /\ UNCHANGED <<_ttl, _connection, current, deco_ttl, w, last, changed>>
    /\ UNCHANGED <<djVars, kcVars>>

\* wrapper, lines 122-125: expire and return
CExpire(c) ==
    /\ ws[c].pc = "expire"
    /\ redis' = Expire(redis, wrapper_key(ws[c].f, ws[c].args, ws[c].kwargs),
                       ttlOf(ws[c].f))
    /\ ws' = [ws EXCEPT ![c].pc = "done",
                        ![c].io = Append(ws[c].io, "expire")]
    /\ UNCHANGED <<_ttl, _connection, current, deco_ttl, w, last, changed>>
    /\ UNCHANGED <<djVars, kcVars>>

\* the store has no entry, a connection is bound, and every caller is about
\* to call the same function with the same arguments
ConcInit ==
    /\ _ttl \in TTLs
    /\ deco_ttl \in {NoKw} \cup TTLs
    /\ _connection = "r"
    /\ current = None
    /\ redis = <<>>
    /\ w = Idle
    /\ last = NoCall
    /\ changed = FALSE
    /\ kc = NoKeys
    /\ \E f \in Funcs : \E args \in ArgsOf(f) :
          ws = [c \in Callers |-> NotStarted(f, args)]
    /\ djInit

ConcNext ==
    \E c \in Callers :
       \/ CCall(c)
       \/ CHit(c)
       \/ \E r \in Results \cup {Raised} : CCompute(c, r)
       \/ CSave(c)
       \/ CExpire(c)

ConcSpec == ConcInit /\ [][ConcNext]_vars

----------------------------------------------------------------------------
\* Properties of the decorator (specification Spec)

\* a step in which the wrapper returns or raises
Completes == w.pc # "idle" /\ w'.pc = "idle"

\* the last invocation repeated the one before it (same function, same
\* arguments, store values unchanged since the store operations of the one
\* before) with a connection available
Repeated == last.rep # "NoPrev" /\ connection # None

\* C1 as stated: a call that repeats the previous call on an unchanged store
\* returns the previous result and never invokes f, whatever f returned.
C1_AsStated ==
    Repeated => (last.inv = 0 /\ last.res = last.rep)

\* C1, amended: a call that repeats the previous call on an unchanged store,
\* the previous call having returned a value other than None, returns the
\* same value and never invokes f (it is served from the store).
C1_RepeatIsHit ==
    (Repeated /\ last.rep # None) => (last.inv = 0 /\ last.res = last.rep)

C1_Witness ==
    /\ Repeated /\ last.rep \in {"1", "2"} /\ last.pinv = 1
    /\ last.inv = 0 /\ last.res = last.rep /\ last.io = <<"get">>

\* C2: a call whose function returns None issues no save and no expire and
\* leaves the store as it was, returns None, and the identical call that
\* follows it invokes the function again.
C2_NoneIsNotCached ==
    [][Completes =>
         /\ (last'.inv = 1 /\ last'.res = None) =>
               (redis' = redis /\ last'.io \in {<<>>, <<"get">>})
         /\ (last'.rep = None /\ last'.pinv = 1) => last'.inv = 1]_vars

C2_Witness ==
    /\ last.rep = None /\ last.pinv = 1 /\ connection # None
    /\ last.inv = 1 /\ last.res = None /\ last.io = <<"get">>

\* the ttl configured for f: the ttl keyword of DefaultCacheManager.cache
\* when it was given, the instance default otherwise
ConfiguredTTL(f) ==
    IF f.deco = "DefaultCacheManager" /\ deco_ttl # NoKw THEN deco_ttl
    ELSE _ttl

\* C8: a miss-path call that saves while a ttl t is configured issues expire
\* right after save and nothing after it, and when it returns the key has a
\* remaining time-to-live in 1..t.
C8_ExpireFollowsSave ==
    [][(Completes /\ last'.inv = 1 /\ last'.res \in {"1", "2"}
        /\ connection # None /\ ConfiguredTTL(last'.f) \in 1..MaxTTL) =>
         LET k == key(last'.f, last'.args)
         IN /\ last'.io = <<"get", "set", "expire">>
            /\ k \in DOMAIN redis'
            /\ redis'[k].val = before_save(last'.res)
            /\ redis'[k].ttl \in 1..ConfiguredTTL(last'.f)]_vars

C8_Witness ==
    /\ last.io = <<"get", "set", "expire">>
    /\ last.f = F_method /\ deco_ttl = 2 /\ _ttl # deco_ttl
    /\ key(last.f, last.args) \in DOMAIN redis
    /\ redis[key(last.f, last.args)].ttl = 2

\* neither a bound nor an ambient connection
NoConnection == _connection = None /\ current = None

Corrupt(data) == Truthy(data) /\ (Len(data) # 2 \/ data[1] # "P")

\* C12: when load returned non-empty bytes that the decode hook rejects, the
\* next step of the wrapper is to raise: f is not invoked, nothing but the
\* get was issued, and the store keeps the entry as it was.
C12_DecodeFailurePropagates ==
    [][(w.pc = "loaded" /\ Corrupt(w.data) /\ w' # w) =>
         /\ w'.pc = "idle"
         /\ last'.res = Raised
         /\ last'.inv = 0 /\ last'.fres = "NotCalled"
         /\ last'.io = <<"get">>
         /\ redis' = redis]_vars

C12_Witness ==
    /\ w.pc = "idle"
    /\ last.res = Raised /\ last.inv = 0 /\ last.io = <<"get">>
    /\ key(last.f, last.args) \in DOMAIN redis
    /\ Corrupt(redis[key(last.f, last.args)].val)

\* C13: a call that repeats the previous call's function and positional
\* arguments with other keyword arguments, the previous call having cached
\* the value it returned and the store values being unchanged since, uses
\* the same key and returns the cached value without invoking f.
C13_KwargsShareKey ==
    [][(Completes /\ connection # None /\ last'.rep \in {"1", "2"}
        /\ last'.pkw # last'.kwargs) =>
         /\ last'.inv = 0
         /\ last'.res = last'.rep
         /\ last'.io = <<"get">>
         /\ redis' = redis]_vars

C13_Witness ==
    /\ connection # None /\ last.rep \in {"1", "2"} /\ last.pinv = 1
    /\ last.pkw = <<>> /\ last.kwargs = <<"v">>
    /\ last.inv = 0 /\ last.res = last.rep

\* C15 as stated: an invocation issues at most one store operation on the
\* hit path and at most two on the miss path.
C15_AsStated ==
    [][Completes =>
         /\ last'.inv = 0 => Len(last'.io) <= 1
         /\ last'.inv = 1 => Len(last'.io) <= 2]_vars

\* C15, amended: an invocation issues exactly the load on the hit path, and
\* on the miss path at most three store operations, one after the other in
\* the order load, save, expire.
C15_RoundTrips ==
    [][Completes =>
         /\ last'.inv = 0 => last'.io = <<"get">>
         /\ last'.inv = 1 =>
               last'.io \in {<<>>, <<"get">>, <<"get", "set">>,
                             <<"get", "set", "expire">>}]_vars

C15_Witness ==
    /\ last.inv = 1 /\ last.res # Raised
    /\ Len(last.io) = 3 /\ last.io[1] = "get"
    /\ last.f = F_plain /\ _ttl = 1

----------------------------------------------------------------------------
\* Properties of CacheManager.key (specification KeySpec)

\* two keys have been computed, for the same function
TwoKeys == kc.prev # NoKey /\ kc.cur # NoKey /\ kc.prev.f = kc.cur.f

\* the positional arguments of a computation without the receiver
Rest(c) ==
    IF HasReceiver(c.f) /\ Len(c.args) > 0 THEN Tail(c.args) ELSE c.args

\* their string forms
Strs(c) == [i \in 1..Len(Rest(c)) |-> unicode(Rest(c)[i])]

\* no string form contains the separator
NoSep(c) ==
    \A i \in 1..Len(Rest(c)) : \A j \in 1..Len(Strs(c)[i]) : Strs(c)[i][j] # ":"

\* C14: for one function, identical arguments give identical
\* keys, arguments differing only in the receiver give identical keys, and
\* distinct argument sequences of the same length, none with the separator
\* in a string form, give distinct keys.
C14_AsStated ==
    TwoKeys =>
       /\ kc.prev.args = kc.cur.args => kc.prev.key = kc.cur.key
       /\ (HasReceiver(kc.cur.f) /\ Rest(kc.prev) = Rest(kc.cur))
             => kc.prev.key = kc.cur.key
       /\ (/\ Len(Rest(kc.prev)) = Len(Rest(kc.cur))
           /\ Rest(kc.prev) # Rest(kc.cur)
           /\ NoSep(kc.prev) /\ NoSep(kc.cur))
             => kc.prev.key # kc.cur.key

----------------------------------------------------------------------------
\* Properties of the update manager (specification UpdSpec)

\* a step in which update returns num_updated
UpdateReturns ==
    /\ u.pc \in {"flush", "view_call"}
    /\ out'.op = "update" /\ out'.status = "returned"

Registry == managers[u.ns]

\* C3: update isolates failures per record: when the loop is over every
\* record has been called, those that raised included, and the value update
\* returns is the number of records whose function did not raise.
C3_FailureIsolation ==
    [][/\ u'.pc = "flush" => u'.called = 1..Len(managers'[u'.ns])
       /\ UpdateReturns =>
            /\ u.called = 1..Len(Registry)
            /\ out'.count = Len(Registry) - Cardinality(u.skipped)]_vars

C3_Witness ==
    /\ u.pc = "flush" /\ Len(Registry) = 2
    /\ u.skipped = {1} /\ u.called = {1, 2} /\ u.num_updated = 1

\* C4: when update returns, the key of every record of the registry whose
\* function did not raise holds the value recomputed for that record.
C4_FreshAfterUpdate ==
    [][UpdateReturns =>
         \A i \in 1..Len(Registry) :
            i \notin u.skipped =>
               /\ RecKey(u.ns, Registry[i]) \in DOMAIN cache'
               /\ cache'[RecKey(u.ns, Registry[i])] = Result(Registry[i])]_vars

\* the view keys cached by the view functions of this update, after the step
RepopAfter ==
    u.repop \cup (IF u.pc = "view_call" /\ cache' # cache
                  THEN {ViewKey(u.j)} ELSE {})

\* C5: whenever update is about to call the function of a view record, the
\* key of that record is absent from the cache, and a view key present when
\* update returns was cached by a view function called by this update.
C5_ViewDeletedBeforeCall ==
    [][/\ u'.pc = "view_call" => ViewKey(u'.j) \notin DOMAIN cache'
       /\ UpdateReturns =>
            \A j \in 1..Len(views) :
               ViewKey(j) \in DOMAIN cache' => ViewKey(j) \in RepopAfter]_vars

\* the view about to be called is a record of the namespace being updated
\* that the loop has just written (keys of N2 are not flushed)
C5_Witness ==
    /\ u.pc = "view_call" /\ u.ns = N2 /\ views[u.j].namespace = N2
    /\ \E i \in 1..Len(Registry) :
          Registry[i] = views[u.j] /\ i \in u.called \ u.skipped
    /\ ViewKey(u.j) \notin DOMAIN cache

\* the text of key k contains .<app_name>.
HasApp(k, app_name) ==
    \E i \in 1..(Len(k) - Len(app_name) - 1) :
       SubSeq(k, i, i + Len(app_name) + 1) = <<".">> \o app_name \o <<".">>

FlushFrame(app_name) ==
    /\ DOMAIN cache' = {k \in DOMAIN cache : ~HasApp(k, app_name)}
    /\ \A k \in DOMAIN cache' : cache'[k] = cache[k]

\* C6: flush_app(app_name), called on its own or by update, removes every key
\* matching *.<app_name>.* and leaves every other key with its value, for a
\* StrictRedis and for a cache with delete_pattern.
C6_FlushFrame ==
    [][/\ \A app \in AppNames : FlushApp(app) => FlushFrame(app)
       /\ u.pc = "flush" => FlushFrame(CACHE_KEYS[u.ns])]_vars

\* a StrictRedis flush returns only when it deleted keys; a key is left
C6_Witness ==
    /\ out.op = "flush_app" /\ out.status = "returned"
    /\ kind = "StrictRedis"
    /\ \E k \in DOMAIN cache : ~HasApp(k, <<"b">>)

\* the namespaces whose update was attempted by the update_all that ended
Attempted ==
    Len(out.results) + (IF out.status = "raised" THEN 1 ELSE 0)

\* C7: when update_all ends, by returning or by raising, the update of every
\* namespace has been attempted.
C7_AllAttempted ==
    (out.op = "update_all" /\ out.status # "running")
       => Attempted = Len(NsOrder)

\* C9: add_to_manager for a namespace that is not in the mapping returns
\* False and appends nothing; update_namespace for such a namespace raises,
\* runs no update and leaves the cache alone; add_to_manager for a known
\* namespace returns True and appends one record to that registry only.
C9_UnknownNamespace ==
    [][/\ (out'.op = "add_to_manager" /\ out'.arg \notin DOMAIN managers) =>
            /\ out'.status = "False"
            /\ managers' = managers /\ views' = views /\ cache' = cache
       /\ (out'.op = "add_to_manager" /\ out'.arg \in DOMAIN managers) =>
            /\ out'.status = "True"
            /\ Len(managers'[out'.arg]) = Len(managers[out'.arg]) + 1
            /\ \A k \in DOMAIN managers :
                  SubSeq(managers'[k], 1, Len(managers[k])) = managers[k]
            /\ \A k \in DOMAIN managers \ {out'.arg} :
                  managers'[k] = managers[k]
            /\ DOMAIN managers' = DOMAIN managers
       /\ (u.pc = "idle" /\ out'.op = "update"
           /\ out'.arg \notin DOMAIN managers) =>
            /\ out'.status = "raised"
            /\ u'.pc = "idle" /\ cache' = cache
            /\ managers' = managers /\ views' = views]_vars

C9_Witness ==
    /\ out.op = "add_to_manager" /\ out.arg = Unknown /\ out.status = "False"
    /\ Len(managers[N1]) = 1 /\ Len(managers[N2]) = 0 /\ Len(views) = 1

\* C10: the namespaces of the manager are always the keys given to __init__,
\* and setting or deleting an attribute raises and changes nothing.
C10_FixedNamespaces ==
    [][/\ DOMAIN managers' = Keys
       /\ out'.op \in {"setattr", "delattr"} =>
            (out'.status = "raised" /\ managers' = managers)]_vars

C10_Witness ==
    /\ out.op = "setattr" /\ out.status = "raised"
    /\ DOMAIN managers = Keys /\ NumRecords = MaxRecords

\* update is in its view pass
InViewPass(upd) == upd.pc \in {"view_delete", "view_call"}

\* C16: update deletes a view key or calls a view function only after it has
\* called every record of its registry and flush_app has returned; the loop
\* and the flush run before flush_app has returned; and a step inside the
\* view pass writes nothing for the registry: num_updated and the records
\* called stay, and the cache changes at the key of the current view only.
C16_PhaseOrder ==
    [][/\ InViewPass(u) => (u.flushed /\ u.called = 1..Len(Registry))
       /\ u.pc \in {"loop", "flush"} => ~u.flushed
       /\ u.pc = "flush" => u.called = 1..Len(Registry)
       /\ (InViewPass(u) /\ InViewPass(u')) =>
            /\ u'.ns = u.ns /\ u'.flushed
            /\ u'.called = u.called /\ u'.num_updated = u.num_updated
            /\ \A k \in (DOMAIN cache \cup DOMAIN cache') \ {ViewKey(u.j)} :
                  /\ k \in DOMAIN cache /\ k \in DOMAIN cache'
                  /\ cache'[k] = cache[k]]_vars

\* the second view, a record of the other namespace, is about to be called
\* by the update of a namespace with one record, which raised
C16_Witness ==
    /\ u.pc = "view_call" /\ u.j = 2 /\ u.flushed
    /\ Len(Registry) = 1 /\ u.called = {1} /\ u.skipped = {1}
    /\ views[2].namespace # u.ns

\* the records of a sequence registered with is_view set, and the records of
\* a sequence registered under namespace ns
IsView(rec) == rec.view
ViewsOf(recs) == SelectSeq(recs, IsView)
UnderNs(recs, ns) == SelectSeq(recs, LAMBDA rec : rec.namespace = ns)

\* the views whose function the update has called once this step is taken
VCalledAfter ==
    u.vcalled \cup (IF u.pc = "view_call" THEN {u.j} ELSE {})

\* C17: CacheManager.views holds exactly the records registered with is_view
\* set, of all namespaces, in the order of their registration: a
\* registration appends its record to it when is_view is set and no other
\* step changes it; and an update that returns has called the function of
\* every record of CacheManager.views, whatever its namespace.
C17_ViewMirror ==
    [][/\ \A j \in 1..Len(views') : views'[j].view
       /\ \A ns \in Keys : ViewsOf(managers'[ns]) = UnderNs(views', ns)
       /\ IF out'.op = "add_to_manager" /\ out'.status = "True"
          THEN LET rec == managers'[out'.arg][Len(managers'[out'.arg])]
               IN views' = IF rec.view THEN Append(views, rec) ELSE views
          ELSE views' = views
       /\ UpdateReturns => VCalledAfter = 1..Len(views)]_vars

\* the update of N1 has returned; the first view is registered under N2
C17_Witness ==
    /\ out.op = "update" /\ out.arg = N1 /\ out.status = "returned"
    /\ Len(views) = 2
    /\ views[1].namespace = N2 /\ views[2].namespace = N1
    /\ Len(managers[N1]) = 1 /\ Len(managers[N2]) = 1

\* C19: when the function of a view record raises, the exception leaves
\* update (and update_all): update is over without a count, so that the
\* views after this one are neither deleted nor called, and the cache stays
\* as the loop, the flush and the deletion of this view's key left it.
C19_ViewFailureAborts ==
    [][(u.pc = "view_call" /\ out'.arg = <<"view">>) =>
         /\ out'.status = "raised"
         /\ out'.op = (IF u.all THEN "update_all" ELSE "update")
         /\ u'.pc = "idle"
         /\ cache' = cache
         /\ ViewKey(u.j) \notin DOMAIN cache']_vars

\* the first of two views raised: its key is deleted, the key of the second,
\* written by the loop, is still there
C19_Witness ==
    /\ out.op = "update" /\ out.arg = <<"view">> /\ out.status = "raised"
    /\ u.pc = "idle" /\ Len(views) = 2
    /\ ViewKey(1) \notin DOMAIN cache
    /\ ViewKey(2) \in DOMAIN cache

----------------------------------------------------------------------------
\* Properties of concurrent callers (specification ConcSpec)

\* every caller has returned or raised
AllDone == \A c \in Callers : ws[c].pc = "done"

\* the key the callers share
CKey == key(ws[1].f, ws[1].args)

\* caller c has saved
Saved(c) == \E i \in 1..Len(ws[c].io) : ws[c].io[i] = "set"

\* C18: callers that race on a key the store has no entry for may all miss,
\* invoke f and save; when f returned the same value v to every caller that
\* invoked it, then, whatever the interleaving, once all callers are done the
\* key holds the encoded v and every caller has returned v.
C18_SameValueStored ==
    \A v \in {"1", "2"} :
       (AllDone /\ \A c \in Callers : ws[c].fres \in {v, "NotCalled"}) =>
          /\ CKey \in DOMAIN redis
          /\ redis[CKey].val = before_save(v)
          /\ \A c \in Callers : ws[c].res = v

\* every caller missed, invoked f and saved
C18_Witness ==
    /\ AllDone
    /\ \A c \in Callers : ws[c].inv = 1 /\ ws[c].res = "1" /\ Saved(c)
    /\ redis[CKey].val = before_save("1")

\* C20: with a ttl configured, once all callers are done and at least one of
\* them has saved, the key is in the store with the configured time-to-live,
\* whatever the interleaving of the saves and expires.
C20_TTLAfterRace ==
    (/\ AllDone
     /\ ConfiguredTTL(ws[1].f) \in 1..MaxTTL
     /\ \E c \in Callers : Saved(c)) =>
       /\ CKey \in DOMAIN redis
       /\ redis[CKey].ttl = ConfiguredTTL(ws[1].f)

\* every caller has saved and expired
C20_Witness ==
    /\ AllDone
    /\ \A c \in Callers : ws[c].io = <<"get", "set", "expire">>
    /\ ws[1].res # ws[2].res
    /\ redis[CKey].ttl = 2
====
